---- MODULE Spec2Model ----
(***************************************************************************)
(* EduWonderLab Pages Worker (_worker.js): the key-value store, the        *)
(* ordered indexes, the four data handlers and the fetch dispatcher.       *)
(* Every await on a storage operation is a separate step, so requests      *)
(* interleave exactly where the handlers can be suspended.                 *)
(***************************************************************************)
EXTENDS Integers, Sequences, FiniteSets, TLC

\* ---------- bounds ----------
NumSlots == 2        \* requests that can be in flight at the same time
MaxRequests == 3     \* requests received in one behaviour
MaxClock == 1        \* last millisecond the clock reaches

\* ---------- strings: sequences of one-character strings ----------
SP == " "

RECURSIVE TrimStart(_)
TrimStart(s) == IF s # <<>> /\ Head(s) = SP THEN TrimStart(Tail(s)) ELSE s

RECURSIVE TrimEnd(_)
TrimEnd(s) ==
  IF s # <<>> /\ s[Len(s)] = SP THEN TrimEnd(SubSeq(s, 1, Len(s) - 1)) ELSE s

\* String.prototype.trim
Trim(s) == TrimEnd(TrimStart(s))

Digits36 == << "0", "1", "2", "3", "4", "5", "6", "7", "8", "9", "a", "b",
               "c", "d", "e", "f", "g", "h", "i", "j", "k", "l", "m", "n",
               "o", "p", "q", "r", "s", "t", "u", "v", "w", "x", "y", "z" >>

\* Number.prototype.toString(36) of a non-negative integer
RECURSIVE ToString36(_)
ToString36(n) ==
  IF n < 36 THEN << Digits36[n + 1] >>
  ELSE ToString36(n \div 36) \o << Digits36[(n % 36) + 1] >>

\* Math.random().toString(36).slice(2, 7): up to five base-36 characters
FirstRandom == << "k" >>
RandomParts == { FirstRandom, << "q", "7" >> }

\* uid(): time part followed by random part
uid(t, r) == ToString36(t) \o r

\* new Date().toISOString() at millisecond t
IsoString(t) ==
  << "1970-01-01T00:00:00." >> \o << Digits36[((t \div 100) % 10) + 1],
     Digits36[((t \div 10) % 10) + 1], Digits36[(t % 10) + 1], "Z" >>

\* ---------- JSON values of a request body field ----------
Undef == [t |-> "undef", s |-> <<>>]      \* field missing from the body
Str(s) == [t |-> "str", s |-> s]          \* a JSON string
Num == [t |-> "num", s |-> <<>>]          \* a truthy non-string (a number)

\* JavaScript truthiness of a field value
Truthy(f) == f.t = "num" \/ (f.t = "str" /\ f.s # <<>>)

\* `!f || !f.trim()` of the required-field checks; a truthy non-string has
\* no trim method, which is reported separately by Throws
Blank(f) == ~Truthy(f) \/ (f.t = "str" /\ Trim(f.s) = <<>>)

\* (f || "").trim() of the optional fields
OrEmptyTrim(f) == IF Truthy(f) THEN Trim(f.s) ELSE <<>>

\* ---------- the key-value backend ----------
Key(prefix, s) == << prefix >> \o s
AssignmentKey(i) == Key("assignment", i)
SubmissionKey(i) == Key("submission", i)
IndexKey(name) == << "index", name >>

\* JSON.stringify / JSON.parse of the values the worker stores
JsonStringify(v) == [text |-> v]
JsonParse(txt) == txt.text

\* kv.get(key): the raw text in a one-element sequence, or <<>> for null
RawGet(store, key) == IF key \in DOMAIN store THEN << store[key] >> ELSE <<>>

\* kvGet(kv, key): the parsed value in a one-element sequence, <<>> for null
kvGet(store, key) ==
  IF RawGet(store, key) = <<>> THEN <<>>
  ELSE << JsonParse(RawGet(store, key)[1]) >>

\* kvPut(kv, key, value): the store after the write
kvPut(store, key, value) ==
  [k \in DOMAIN store \cup {key} |->
     IF k = key THEN JsonStringify(value) ELSE store[k]]

\* getIndex(kv, name)
getIndex(store, name) ==
  IF kvGet(store, IndexKey(name)) = <<>> THEN <<>>
  ELSE kvGet(store, IndexKey(name))[1]

Includes(seq, x) == \E k \in 1..Len(seq) : seq[k] = x

\* pushIndex lines 62: the list that is written back
pushIndexDup(idx, i) == Append(idx, i)
pushIndexOnly(idx, i) == << i >>
pushIndexValue(idx, i) == IF ~Includes(idx, i) THEN Append(idx, i) ELSE idx

Reverse(seq) == [k \in 1..Len(seq) |-> seq[Len(seq) + 1 - k]]

RECURSIVE Compact(_)
\* Array.prototype.filter(Boolean) over fetched values (<<>> is null)
Compact(seq) == IF seq = <<>> THEN <<>> ELSE Head(seq) \o Compact(Tail(seq))

\* ---------- requests ----------
Slots == 1..NumSlots
Ids == { uid(t, r) : t \in 0..MaxClock, r \in RandomParts }

EmptyBody ==
  [title |-> Undef, prompt |-> Undef, gradeBand |-> Undef, classPin |-> Undef,
   createdAt |-> Undef, assignmentId |-> Undef, studentName |-> Undef,
   response |-> Undef, steps |-> Undef, reflection |-> Undef,
   submittedAt |-> Undef]

TitleVals ==
  { Undef, Str(<<>>), Str(<< SP >>), Str(<< "a" >>), Str(<< SP, "b", SP >>),
    Num }
PromptVals == { Undef, Str(<< SP, SP >>), Str(<< "p", SP >>) }

AssignmentBodies ==
  { [EmptyBody EXCEPT !.title = t, !.prompt = q] :
      t \in TitleVals, q \in PromptVals }
  \cup { [EmptyBody EXCEPT !.title = Str(<< "a" >>), !.prompt = Str(<< "p" >>),
                           !.gradeBand = Str(<< "5", SP >>),
                           !.classPin = Str(<< SP, "1" >>),
                           !.createdAt = Str(<< "t" >>)],
         [EmptyBody EXCEPT !.title = Str(<< "a" >>), !.prompt = Str(<< "p" >>),
                           !.gradeBand = Num] }

AssignmentIdVals == { Undef, Str(<<>>), Str(<< SP >>) } \cup { Str(i) : i \in Ids }
StudentNameVals == { Undef, Str(<< SP >>), Str(<< "n", SP >>) }
ResponseVals == { Str(<<>>), Str(<< "r" >>) }

SubmissionBodies ==
  { [EmptyBody EXCEPT !.assignmentId = a, !.studentName = n, !.response = r] :
      a \in AssignmentIdVals, n \in StudentNameVals, r \in ResponseVals }
  \cup { [EmptyBody EXCEPT !.assignmentId = Str(i),
                           !.studentName = Str(<< "n" >>),
                           !.response = Str(<< "r" >>),
                           !.steps = Str(<< "s", SP >>),
                           !.reflection = Num] : i \in Ids }

Methods == { "GET", "POST", "OPTIONS", "PUT" }

\* url.pathname as its segments: /api/assignments is << "api", "assignments" >>
PathApi == << "api" >>
PathHealth == << "api", "health" >>
PathAssignments == << "api", "assignments" >>
PathSubmissions == << "api", "submissions" >>
Paths ==
  { PathApi, PathHealth, PathAssignments, PathSubmissions,
    << "api", "grades" >>, << "apidocs" >>, << "index.html" >> }

\* the assignmentId query parameter: absent, empty or a value
Filters == { Undef, Str(<<>>) } \cup { Str(i) : i \in Ids }

Req(m, path, bound, parses, body, filter) ==
  [method |-> m, path |-> path, kvBound |-> bound, jsonOk |-> parses,
   body |-> body, filter |-> filter]

NoReq == Req("GET", PathApi, FALSE, FALSE, EmptyBody, Undef)

Requests ==
  { Req(m, path, b, TRUE, EmptyBody, Undef) :
      m \in Methods, path \in Paths, b \in BOOLEAN }
  \cup { Req("POST", path, b, FALSE, EmptyBody, Undef) :
           path \in Paths, b \in BOOLEAN }
  \cup { Req("POST", PathAssignments, TRUE, TRUE, body, Undef) :
           body \in AssignmentBodies }
  \cup { Req("POST", PathSubmissions, TRUE, TRUE, body, Undef) :
           body \in SubmissionBodies }
  \cup { Req("GET", PathSubmissions, TRUE, TRUE, EmptyBody, f) : f \in Filters }

\* The two workloads a behaviour is checked with.  "mixed": every request of
\* Requests and every random part, handled one at a time.  "racing": up to
\* NumSlots requests in flight at once, drawn from the data requests below,
\* with one random part (ids then differ by their millisecond only).
RacingAssignmentBodies ==
  { [EmptyBody EXCEPT !.title = Str(<< SP, "b", SP >>),
                      !.prompt = Str(<< "p", SP >>)],
    [EmptyBody EXCEPT !.title = Str(<< "a" >>), !.prompt = Str(<< "p" >>),
                      !.gradeBand = Str(<< "5", SP >>),
                      !.classPin = Str(<< SP, "1" >>),
                      !.createdAt = Str(<< "t" >>)] }
RacingSubmissionBodies ==
  { [EmptyBody EXCEPT !.assignmentId = Str(uid(0, FirstRandom)),
                      !.studentName = Str(<< "n", SP >>),
                      !.response = Str(<< "r" >>)] }
RacingRequests ==
  { Req("POST", PathAssignments, TRUE, TRUE, body, Undef) :
      body \in RacingAssignmentBodies }
  \cup { Req("POST", PathSubmissions, TRUE, TRUE, body, Undef) :
           body \in RacingSubmissionBodies }
  \cup { Req("GET", PathAssignments, TRUE, TRUE, EmptyBody, Undef) }
  \cup { Req("GET", PathSubmissions, TRUE, TRUE, EmptyBody, f) :
           f \in { Undef, Str(uid(0, FirstRandom)) } }
RandomsOf(load) == IF load = "racing" THEN { FirstRandom } ELSE RandomParts

\* path.startsWith("/api/")
StartsWithApi(path) == Len(path) >= 2 /\ path[1] = "api"

\* fetch(): the branch a request takes
DispatchNoParseCheck(r) ==
  IF r.method = "OPTIONS" THEN "preflight"
  ELSE IF r.path = PathApi \/ r.path = PathHealth THEN "health"
  ELSE IF ~StartsWithApi(r.path) THEN "assets"
  ELSE IF ~r.kvBound THEN "nokv"
  ELSE IF r.path = PathAssignments /\ r.method = "GET" THEN "assignmentsGet"
  ELSE IF r.path = PathAssignments /\ r.method = "POST" THEN "assignmentsPost"
  ELSE IF r.path = PathSubmissions /\ r.method = "GET" THEN "submissionsGet"
  ELSE IF r.path = PathSubmissions /\ r.method = "POST" THEN "submissionsPost"
  ELSE "notfound"
DispatchParseFirst(r) ==
  IF r.method = "OPTIONS" THEN "preflight"
  ELSE IF r.path = PathApi \/ r.path = PathHealth THEN "health"
  ELSE IF ~StartsWithApi(r.path) THEN "assets"
  ELSE IF r.method = "POST" /\ ~r.jsonOk THEN "badjson"
  ELSE IF ~r.kvBound THEN "nokv"
  ELSE IF r.path = PathAssignments /\ r.method = "GET" THEN "assignmentsGet"
  ELSE IF r.path = PathAssignments /\ r.method = "POST" THEN "assignmentsPost"
  ELSE IF r.path = PathSubmissions /\ r.method = "GET" THEN "submissionsGet"
  ELSE IF r.path = PathSubmissions /\ r.method = "POST" THEN "submissionsPost"
  ELSE "notfound"
DispatchKvFirst(r) ==
  IF r.method = "OPTIONS" THEN "preflight"
  ELSE IF ~StartsWithApi(r.path) /\ r.path # PathApi THEN "assets"
  ELSE IF ~r.kvBound THEN "nokv"
  ELSE IF r.path = PathApi \/ r.path = PathHealth THEN "health"
  ELSE IF r.method = "POST" /\ ~r.jsonOk THEN "badjson"
  ELSE IF r.path = PathAssignments /\ r.method = "GET" THEN "assignmentsGet"
  ELSE IF r.path = PathAssignments /\ r.method = "POST" THEN "assignmentsPost"
  ELSE IF r.path = PathSubmissions /\ r.method = "GET" THEN "submissionsGet"
  ELSE IF r.path = PathSubmissions /\ r.method = "POST" THEN "submissionsPost"
  ELSE "notfound"
DispatchPreflightApiOnly(r) ==
  IF r.path = PathApi \/ r.path = PathHealth
  THEN IF r.method = "OPTIONS" THEN "preflight" ELSE "health"
  ELSE IF ~StartsWithApi(r.path) THEN "assets"
  ELSE IF r.method = "OPTIONS" THEN "preflight"
  ELSE IF ~r.kvBound THEN "nokv"
  ELSE IF r.method = "POST" /\ ~r.jsonOk THEN "badjson"
  ELSE IF r.path = PathAssignments /\ r.method = "GET" THEN "assignmentsGet"
  ELSE IF r.path = PathAssignments /\ r.method = "POST" THEN "assignmentsPost"
  ELSE IF r.path = PathSubmissions /\ r.method = "GET" THEN "submissionsGet"
  ELSE IF r.path = PathSubmissions /\ r.method = "POST" THEN "submissionsPost"
  ELSE "notfound"
Dispatch(r) ==
  IF r.method = "OPTIONS" THEN "preflight"
  ELSE IF r.path = PathApi \/ r.path = PathHealth THEN "health"
  ELSE IF ~StartsWithApi(r.path) THEN "assets"
  ELSE IF ~r.kvBound THEN "nokv"
  ELSE IF r.method = "POST" /\ ~r.jsonOk THEN "badjson"
  ELSE IF r.path = PathAssignments /\ r.method = "GET" THEN "assignmentsGet"
  ELSE IF r.path = PathAssignments /\ r.method = "POST" THEN "assignmentsPost"
  ELSE IF r.path = PathSubmissions /\ r.method = "GET" THEN "submissionsGet"
  ELSE IF r.path = PathSubmissions /\ r.method = "POST" THEN "submissionsPost"
  ELSE "notfound"

\* the requests that take a given branch of fetch()
Taking(branches) == { r \in Requests : Dispatch(r) \in branches }
PreflightRequests == Taking({ "preflight" })
HealthRequests == Taking({ "health" })
NoKvRequests == Taking({ "nokv" })
BadJsonRequests == Taking({ "badjson" })
NotFoundRequests == Taking({ "notfound" })
AssetsRequests == Taking({ "assets" })
AssignmentsPostRequests == Taking({ "assignmentsPost" })
SubmissionsPostRequests == Taking({ "submissionsPost" })
ListRequests == Taking({ "assignmentsGet", "submissionsGet" })

\* the index a data route works on
IndexName(r) ==
  IF r.path = PathAssignments THEN "assignments" ELSE "submissions"
RecordKey(r, i) ==
  IF r.path = PathAssignments THEN AssignmentKey(i) ELSE SubmissionKey(i)

\* ---------- responses ----------
Response(status, ok, error, i, item, items) ==
  [status |-> status, ok |-> ok, error |-> error, id |-> i, item |-> item,
   items |-> items]
NoResp == Response(0, FALSE, "", <<>>, <<>>, <<>>)
\* json(data, status) of the success payloads
jsonCreated(i, rec) == Response(201, TRUE, "", i, << rec >>, <<>>)
jsonItems(items) == Response(200, TRUE, "", <<>>, <<>>, items)
\* err(msg, status)
err(msg, status) == Response(status, FALSE, msg, <<>>, <<>>, <<>>)
\* an exception that leaves fetch(): the runtime answers 500
Uncaught == Response(500, FALSE, "exception", <<>>, <<>>, <<>>)

\* ---------- validation and record construction ----------
\* handleAssignmentsPost lines 77-79 and the trims of lines 84-87
AssignmentCheckNoTrim(body) ==
  IF ~Truthy(body.title) THEN "title is required"
  ELSE IF body.title.t # "str" THEN "throw"
  ELSE IF ~Truthy(body.prompt) THEN "prompt is required"
  ELSE IF body.prompt.t # "str" THEN "throw"
  ELSE IF body.gradeBand.t = "num" \/ body.classPin.t = "num" THEN "throw"
  ELSE "ok"

AssignmentCheck(body) ==
  IF ~Truthy(body.title) THEN "title is required"
  ELSE IF body.title.t # "str" THEN "throw"
  ELSE IF Trim(body.title.s) = <<>> THEN "title is required"
  ELSE IF ~Truthy(body.prompt) THEN "prompt is required"
  ELSE IF body.prompt.t # "str" THEN "throw"
  ELSE IF Trim(body.prompt.s) = <<>> THEN "prompt is required"
  ELSE IF body.gradeBand.t = "num" \/ body.classPin.t = "num" THEN "throw"
  ELSE "ok"

\* created/submitted timestamp: caller's value if truthy, else server time
Stamp(f, t) == IF Truthy(f) THEN f.s ELSE IsoString(t)

AssignmentRecord(body, i, t) ==
  [id |-> i, title |-> Trim(body.title.s), prompt |-> Trim(body.prompt.s),
   gradeBand |-> OrEmptyTrim(body.gradeBand),
   classPin |-> OrEmptyTrim(body.classPin),
   createdAt |-> Stamp(body.createdAt, t)]

\* handleSubmissionsPost lines 113-116
SubmissionCheckNoName(body) ==
  IF ~Truthy(body.assignmentId) THEN "assignmentId is required"
  ELSE IF ~Truthy(body.response) THEN "response is required"
  ELSE IF body.response.t # "str" THEN "throw"
  ELSE IF Trim(body.response.s) = <<>> THEN "response is required"
  ELSE "ok"
SubmissionCheck(body) ==
  IF ~Truthy(body.assignmentId) THEN "assignmentId is required"
  ELSE IF ~Truthy(body.studentName) THEN "studentName is required"
  ELSE IF body.studentName.t # "str" THEN "throw"
  ELSE IF Trim(body.studentName.s) = <<>> THEN "studentName is required"
  ELSE IF ~Truthy(body.response) THEN "response is required"
  ELSE IF body.response.t # "str" THEN "throw"
  ELSE IF Trim(body.response.s) = <<>> THEN "response is required"
  ELSE "ok"

\* the trims of lines 126-130 throw on a truthy non-string
SubmissionBuildThrows(body) ==
  body.classPin.t = "num" \/ body.steps.t = "num" \/ body.reflection.t = "num"

SubmissionRecord(body, i, t) ==
  [id |-> i, assignmentId |-> body.assignmentId.s,
   studentName |-> Trim(body.studentName.s),
   classPin |-> OrEmptyTrim(body.classPin),
   response |-> Trim(body.response.s),
   steps |-> OrEmptyTrim(body.steps),
   reflection |-> OrEmptyTrim(body.reflection),
   submittedAt |-> Stamp(body.submittedAt, t)]

\* ---------- state ----------
VARIABLES
  kv,        \* the EWL_DATA namespace: key -> stored JSON text
  now,       \* Date.now()
  nreq,      \* requests received so far
  pc,        \* per slot: where the request's handler is suspended
  req,       \* per slot: the request being handled
  rid,       \* per slot: the handler's local `id`
  record,    \* per slot: the handler's local `record`, <<>> before it exists
  idx,       \* per slot: the index value the handler has read
  todo,      \* per slot: positions of the batch fetch still outstanding
  items,     \* per slot: results of the batch fetch, by index position
  resp,      \* per slot: the response the handler returned
  ops,       \* per slot: storage operations the request has completed
  seen,      \* per slot: number of acknowledged creates when a list started
  created,   \* per index name: items of the 201 responses, in order
  flags,     \* what has happened so far in the behaviour (history)
  workload   \* "mixed" or "racing": which requests arrive, and how

vars == << kv, now, nreq, pc, req, rid, record, idx, todo, items, resp, ops,
           seen, created, flags, workload >>

NoOps == [put |-> 0, get |-> 0, iget |-> 0, iput |-> 0]

InFlight(p) == pc[p] \notin { "idle", "responded" }
IsCreate(p, name) ==
  InFlight(p) /\ req[p].method = "POST" /\ IndexName(req[p]) = name

\* a response is handed to the runtime as soon as the handler returns it
Settled == \A p \in Slots : pc[p] # "responded"

Init ==
  /\ kv = << >>
  /\ now = 0
  /\ nreq = 0
  /\ pc = [p \in Slots |-> "idle"]
  /\ req = [p \in Slots |-> NoReq]
  /\ rid = [p \in Slots |-> <<>>]
  /\ record = [p \in Slots |-> <<>>]
  /\ idx = [p \in Slots |-> <<>>]
  /\ todo = [p \in Slots |-> {}]
  /\ items = [p \in Slots |-> <<>>]
  /\ resp = [p \in Slots |-> NoResp]
  /\ ops = [p \in Slots |-> NoOps]
  /\ seen = [p \in Slots |-> 0]
  /\ created = [n \in { "assignments", "submissions" } |-> <<>>]
  /\ flags = {}
  /\ workload \in { "mixed", "racing" }

\* history recorded when request r arrives in a slot
ArrivalFlags(p, r) ==
  (IF \E q \in Slots : InFlight(q) THEN { "overlap" } ELSE {})
  \cup (IF Dispatch(r) \in { "assignmentsPost", "submissionsPost" }
           /\ \E q \in Slots : IsCreate(q, IndexName(r))
        THEN { "overlap:" \o IndexName(r) } ELSE {})

\* the handler returns response out
Return(p, out) ==
  /\ pc' = [pc EXCEPT ![p] = "responded"]
  /\ resp' = [resp EXCEPT ![p] = out]
  /\ rid' = [rid EXCEPT ![p] = <<>>]
  /\ record' = [record EXCEPT ![p] = <<>>]
  /\ idx' = [idx EXCEPT ![p] = <<>>]
  /\ todo' = [todo EXCEPT ![p] = {}]
  /\ items' = [items EXCEPT ![p] = <<>>]

\* a request arrives and fetch() answers it without touching storage
Arrive(p, r) ==
  /\ Settled
  /\ pc[p] = "idle"
  /\ IF workload = "racing"
     THEN r \in RacingRequests /\ \A q \in Slots : q < p => pc[q] # "idle"
     ELSE p = 1
  /\ nreq < MaxRequests
  /\ nreq' = nreq + 1
  /\ req' = [req EXCEPT ![p] = r]
  /\ flags' = flags \cup ArrivalFlags(p, r)
  /\ UNCHANGED workload

\* fetch() lines 149-151
Preflight(p, r) ==
  /\ Arrive(p, r)
  /\ Dispatch(r) = "preflight"
  /\ Return(p, Response(204, TRUE, "", <<>>, <<>>, <<>>))
  /\ UNCHANGED << kv, now, ops, seen, created >>

\* fetch() lines 154-156
Health(p, r) ==
  /\ Arrive(p, r)
  /\ Dispatch(r) = "health"
  /\ Return(p, Response(200, TRUE, "", <<>>, <<>>, <<>>))
  /\ UNCHANGED << kv, now, ops, seen, created >>

\* fetch() lines 162-169
NoKv(p, r) ==
  /\ Arrive(p, r)
  /\ Dispatch(r) = "nokv"
  /\ Return(p, err("KV namespace EWL_DATA not bound", 500))
  /\ UNCHANGED << kv, now, ops, seen, created >>

\* fetch() lines 173-179
BadJson(p, r) ==
  /\ Arrive(p, r)
  /\ Dispatch(r) = "badjson"
  /\ Return(p, err("Invalid JSON body", 400))
  /\ UNCHANGED << kv, now, ops, seen, created >>

\* fetch() line 193
NotFoundDefaultStatus(p, r) ==
  /\ Arrive(p, r)
  /\ Dispatch(r) = "notfound"
  /\ Return(p, err("Not found", 400))
  /\ UNCHANGED << kv, now, ops, seen, created >>
NotFound(p, r) ==
  /\ Arrive(p, r)
  /\ Dispatch(r) = "notfound"
  /\ Return(p, err("Not found", 404))
  /\ UNCHANGED << kv, now, ops, seen, created >>

\* fetch() line 197: whatever env.ASSETS.fetch answers
Assets(p, r) ==
  /\ Arrive(p, r)
  /\ Dispatch(r) = "assets"
  /\ Return(p, Response(200, TRUE, "asset", <<>>, <<>>, <<>>))
  /\ UNCHANGED << kv, now, ops, seen, created >>

\* handleAssignmentsPost lines 77-91, up to the call of kv.put
AssignmentsPostStart(p, r, rnd) ==
  /\ Arrive(p, r)
  /\ rnd \in RandomsOf(workload)
  /\ Dispatch(r) = "assignmentsPost"
  /\ IF AssignmentCheck(r.body) = "ok"
     THEN /\ pc' = [pc EXCEPT ![p] = "put"]
          /\ rid' = [rid EXCEPT ![p] = uid(now, rnd)]
          /\ record' = [record EXCEPT ![p] =
                          << AssignmentRecord(r.body, uid(now, rnd), now) >>]
          /\ UNCHANGED << resp, idx, todo, items >>
     ELSE IF AssignmentCheck(r.body) = "throw"
     THEN Return(p, Uncaught)
     ELSE Return(p, err(AssignmentCheck(r.body), 400))
  /\ UNCHANGED << kv, now, ops, seen, created >>

\* handleSubmissionsPost lines 113-119, up to the call of kv.get
SubmissionsPostStart(p, r) ==
  /\ Arrive(p, r)
  /\ Dispatch(r) = "submissionsPost"
  /\ IF SubmissionCheck(r.body) = "ok"
     THEN /\ pc' = [pc EXCEPT ![p] = "lookup"]
          /\ UNCHANGED << resp, rid, record, idx, todo, items >>
     ELSE IF SubmissionCheck(r.body) = "throw"
     THEN Return(p, Uncaught)
     ELSE Return(p, err(SubmissionCheck(r.body), 400))
  /\ UNCHANGED << kv, now, ops, seen, created >>

\* handleSubmissionsPost lines 119-134: the assignment read completes
SubmissionsPostLookupNoCheck(p, rnd) ==
  /\ Settled
  /\ pc[p] = "lookup"
  /\ rnd \in RandomsOf(workload)
  /\ ops' = [ops EXCEPT ![p].get = @ + 1]
  /\ IF SubmissionBuildThrows(req[p].body)
     THEN Return(p, Uncaught)
     ELSE /\ pc' = [pc EXCEPT ![p] = "put"]
          /\ rid' = [rid EXCEPT ![p] = uid(now, rnd)]
          /\ record' = [record EXCEPT ![p] =
                          << SubmissionRecord(req[p].body, uid(now, rnd), now) >>]
          /\ UNCHANGED << resp, idx, todo, items >>
  /\ UNCHANGED << kv, now, nreq, req, seen, created, flags, workload >>

SubmissionsPostLookupDefaultStatus(p, rnd) ==
  /\ Settled
  /\ pc[p] = "lookup"
  /\ rnd \in RandomsOf(workload)
  /\ ops' = [ops EXCEPT ![p].get = @ + 1]
  /\ IF kvGet(kv, AssignmentKey(req[p].body.assignmentId.s)) = <<>>
     THEN Return(p, err("assignment not found", 400))
     ELSE IF SubmissionBuildThrows(req[p].body)
     THEN Return(p, Uncaught)
     ELSE /\ pc' = [pc EXCEPT ![p] = "put"]
          /\ rid' = [rid EXCEPT ![p] = uid(now, rnd)]
          /\ record' = [record EXCEPT ![p] =
                          << SubmissionRecord(req[p].body, uid(now, rnd), now) >>]
          /\ UNCHANGED << resp, idx, todo, items >>
  /\ UNCHANGED << kv, now, nreq, req, seen, created, flags, workload >>

SubmissionsPostLookup(p, rnd) ==
  /\ Settled
  /\ pc[p] = "lookup"
  /\ rnd \in RandomsOf(workload)
  /\ ops' = [ops EXCEPT ![p].get = @ + 1]
  /\ IF kvGet(kv, AssignmentKey(req[p].body.assignmentId.s)) = <<>>
     THEN Return(p, err("assignment not found", 404))
     ELSE IF SubmissionBuildThrows(req[p].body)
     THEN Return(p, Uncaught)
     ELSE /\ pc' = [pc EXCEPT ![p] = "put"]
          /\ rid' = [rid EXCEPT ![p] = uid(now, rnd)]
          /\ record' = [record EXCEPT ![p] =
                          << SubmissionRecord(req[p].body, uid(now, rnd), now) >>]
          /\ UNCHANGED << resp, idx, todo, items >>
  /\ UNCHANGED << kv, now, nreq, req, seen, created, flags, workload >>

\* kvPut of the record (lines 91 and 134) takes effect
PutRecordSkip(p) ==
  /\ Settled
  /\ pc[p] = "put"
  /\ pc' = [pc EXCEPT ![p] = "idxget"]
  /\ ops' = [ops EXCEPT ![p].put = @ + 1]
  /\ UNCHANGED << kv, now, nreq, req, rid, record, idx, todo, items, resp, seen,
                  created, flags, workload >>

PutRecordOnly(p) ==
  /\ Settled
  /\ pc[p] = "put"
  /\ kv' = kvPut(kv, RecordKey(req[p], rid[p]), record[p][1])
  /\ pc' = [pc EXCEPT ![p] = "created"]
  /\ ops' = [ops EXCEPT ![p].put = @ + 1]
  /\ UNCHANGED << now, nreq, req, rid, record, idx, todo, items, resp, seen,
                  created, flags, workload >>

PutRecord(p) ==
  /\ Settled
  /\ pc[p] = "put"
  /\ kv' = kvPut(kv, RecordKey(req[p], rid[p]), record[p][1])
  /\ pc' = [pc EXCEPT ![p] = "idxget"]
  /\ ops' = [ops EXCEPT ![p].put = @ + 1]
  /\ UNCHANGED << now, nreq, req, rid, record, idx, todo, items, resp, seen,
                  created, flags, workload >>

\* pushIndex line 61: the index read completes
PushIndexRead(p) ==
  /\ Settled
  /\ pc[p] = "idxget"
  /\ idx' = [idx EXCEPT ![p] = getIndex(kv, IndexName(req[p]))]
  /\ pc' = [pc EXCEPT ![p] = "idxput"]
  /\ ops' = [ops EXCEPT ![p].iget = @ + 1]
  /\ UNCHANGED << kv, now, nreq, req, rid, record, todo, items, resp, seen,
                  created, flags, workload >>

\* pushIndex lines 62-63: the index write takes effect
PushIndexWriteRetry(p) ==
  /\ Settled
  /\ pc[p] = "idxput"
  /\ IF idx[p] # getIndex(kv, IndexName(req[p]))
     THEN /\ pc' = [pc EXCEPT ![p] = "idxget"]
          /\ UNCHANGED << kv, flags, ops >>
     ELSE /\ kv' = kvPut(kv, IndexKey(IndexName(req[p])),
                         pushIndexValue(idx[p], rid[p]))
          /\ pc' = [pc EXCEPT ![p] = "created"]
          /\ ops' = [ops EXCEPT ![p].iput = @ + 1]
          /\ UNCHANGED flags
  /\ UNCHANGED << now, nreq, req, rid, record, idx, todo, items, resp, seen,
                  created, workload >>
PushIndexWrite(p) ==
  /\ Settled
  /\ pc[p] = "idxput"
  /\ kv' = kvPut(kv, IndexKey(IndexName(req[p])),
                 pushIndexValue(idx[p], rid[p]))
  /\ flags' = flags \cup
       (IF idx[p] # getIndex(kv, IndexName(req[p]))
        THEN { "stale:" \o IndexName(req[p]) } ELSE {})
  /\ pc' = [pc EXCEPT ![p] = "created"]
  /\ ops' = [ops EXCEPT ![p].iput = @ + 1]
  /\ UNCHANGED << now, nreq, req, rid, record, idx, todo, items, resp, seen,
                  created, workload >>

\* lines 94 and 137: the 201 response
CreateReturn(p) ==
  /\ Settled
  /\ pc[p] = "created"
  /\ created' = [created EXCEPT ![IndexName(req[p])] =
                   Append(@, record[p][1])]
  /\ Return(p, jsonCreated(rid[p], record[p][1]))
  /\ UNCHANGED << kv, now, nreq, req, ops, seen, flags, workload >>

\* url.searchParams.get("assignmentId") || ""
FilterId(f) == IF Truthy(f) THEN f.s ELSE <<>>

\* handleAssignmentsGet line 73: the items of the response
AssignmentsListingTail(fetched) ==
  Reverse(SubSeq(Compact(fetched), 2, Len(Compact(fetched))))
AssignmentsListing(fetched) == Reverse(Compact(fetched))

\* handleSubmissionsGet lines 103-109: the items of the response
SubmissionsListingAll(fetched, f) == Reverse(Compact(fetched))
SubmissionsListing(fetched, f) ==
  IF FilterId(f) # <<>>
  THEN Reverse(SelectSeq(Compact(fetched),
                         LAMBDA sub : sub.assignmentId = FilterId(f)))
  ELSE Reverse(Compact(fetched))

\* handleAssignmentsGet / handleSubmissionsGet up to the call of getIndex
ListStart(p, r) ==
  /\ Arrive(p, r)
  /\ Dispatch(r) \in { "assignmentsGet", "submissionsGet" }
  /\ pc' = [pc EXCEPT ![p] = "index"]
  /\ seen' = [seen EXCEPT ![p] = Len(created[IndexName(r)])]
  /\ UNCHANGED << kv, now, rid, record, idx, todo, items, resp, ops, created >>

\* lines 69 and 99: the index read completes and the batch fetch is issued
ListIndexReadInit(p) ==
  /\ Settled
  /\ pc[p] = "index"
  /\ kv' = kvPut(kv, IndexKey(IndexName(req[p])),
                 getIndex(kv, IndexName(req[p])))
  /\ idx' = [idx EXCEPT ![p] = getIndex(kv, IndexName(req[p]))]
  /\ todo' = [todo EXCEPT ![p] = 1..Len(getIndex(kv, IndexName(req[p])))]
  /\ items' = [items EXCEPT ![p] =
                 [k \in 1..Len(getIndex(kv, IndexName(req[p]))) |-> <<>>]]
  /\ pc' = [pc EXCEPT ![p] = "fetch"]
  /\ ops' = [ops EXCEPT ![p].iget = @ + 1]
  /\ UNCHANGED << now, nreq, req, rid, record, resp, seen, created, flags, workload >>
ListIndexRead(p) ==
  /\ Settled
  /\ pc[p] = "index"
  /\ idx' = [idx EXCEPT ![p] = getIndex(kv, IndexName(req[p]))]
  /\ todo' = [todo EXCEPT ![p] = 1..Len(getIndex(kv, IndexName(req[p])))]
  /\ items' = [items EXCEPT ![p] =
                 [k \in 1..Len(getIndex(kv, IndexName(req[p]))) |-> <<>>]]
  /\ pc' = [pc EXCEPT ![p] = "fetch"]
  /\ ops' = [ops EXCEPT ![p].iget = @ + 1]
  /\ UNCHANGED << kv, now, nreq, req, rid, record, resp, seen, created, flags, workload >>

\* lines 70-72 and 100-102: one read of the Promise.all batch completes
ListFetch(p, k) ==
  /\ Settled
  /\ pc[p] = "fetch"
  /\ k \in todo[p]
  /\ items' = [items EXCEPT ![p][k] = kvGet(kv, RecordKey(req[p], idx[p][k]))]
  /\ todo' = [todo EXCEPT ![p] = @ \ {k}]
  /\ ops' = [ops EXCEPT ![p].get = @ + 1]
  /\ UNCHANGED << kv, now, nreq, pc, req, rid, record, idx, resp, seen, created,
                  flags, workload >>

\* lines 73 and 103-109: the batch is complete, the listing is returned
ListReturn(p) ==
  /\ Settled
  /\ pc[p] = "fetch"
  /\ todo[p] = {}
  /\ Return(p, jsonItems(IF req[p].path = PathAssignments
                         THEN AssignmentsListing(items[p])
                         ELSE SubmissionsListing(items[p], req[p].filter)))
  /\ UNCHANGED << kv, now, nreq, req, ops, seen, created, flags, workload >>

\* a storage operation rejects (kv.get / kv.put throws): nothing catches it,
\* the request ends there with the runtime's 500
Abort(p) ==
  /\ Settled
  /\ \/ pc[p] \in { "lookup", "put", "idxget", "idxput", "index" }
     \/ pc[p] = "fetch" /\ todo[p] # {}
  /\ Return(p, Uncaught)
  /\ flags' = flags \cup { "abort" }
  /\ UNCHANGED << kv, now, nreq, req, ops, seen, created, workload >>

\* the runtime sends the response and drops the request's context
Deliver(p) ==
  /\ pc[p] = "responded"
  /\ pc' = [pc EXCEPT ![p] = "idle"]
  /\ req' = [req EXCEPT ![p] = NoReq]
  /\ resp' = [resp EXCEPT ![p] = NoResp]
  /\ ops' = [ops EXCEPT ![p] = NoOps]
  /\ seen' = [seen EXCEPT ![p] = 0]
  /\ UNCHANGED << kv, now, nreq, rid, record, idx, todo, items, created, flags, workload >>

\* the millisecond clock advances
Tick ==
  /\ Settled
  /\ now < MaxClock
  /\ now' = now + 1
  /\ UNCHANGED << kv, nreq, pc, req, rid, record, idx, todo, items, resp, ops,
                  seen, created, flags, workload >>

Next ==
  \/ \E p \in Slots, r \in PreflightRequests : Preflight(p, r)
  \/ \E p \in Slots, r \in HealthRequests : Health(p, r)
  \/ \E p \in Slots, r \in NoKvRequests : NoKv(p, r)
  \/ \E p \in Slots, r \in BadJsonRequests : BadJson(p, r)
  \/ \E p \in Slots, r \in NotFoundRequests : NotFound(p, r)
  \/ \E p \in Slots, r \in AssetsRequests : Assets(p, r)
  \/ \E p \in Slots, r \in AssignmentsPostRequests, rnd \in RandomParts :
       AssignmentsPostStart(p, r, rnd)
  \/ \E p \in Slots, r \in SubmissionsPostRequests : SubmissionsPostStart(p, r)
  \/ \E p \in Slots, rnd \in RandomParts : SubmissionsPostLookup(p, rnd)
  \/ \E p \in Slots : PutRecord(p)
  \/ \E p \in Slots : PushIndexRead(p)
  \/ \E p \in Slots : PushIndexWrite(p)
  \/ \E p \in Slots : CreateReturn(p)
  \/ \E p \in Slots, r \in ListRequests : ListStart(p, r)
  \/ \E p \in Slots : ListIndexRead(p)
  \/ \E p \in Slots, k \in 1..MaxRequests : ListFetch(p, k)
  \/ \E p \in Slots : ListReturn(p)
  \/ \E p \in Slots : Abort(p)
  \/ \E p \in Slots : Deliver(p)
  \/ Tick

Spec == Init /\ [][Next]_vars

\* Every storage operation a request awaits completes, every handler that
\* can return does, and the runtime delivers every response: the steps of a
\* request in slot p are taken when they stay possible.
Proceed(p) ==
  \/ \E rnd \in RandomParts : SubmissionsPostLookup(p, rnd)
  \/ PutRecord(p)
  \/ PushIndexRead(p)
  \/ PushIndexWrite(p)
  \/ CreateReturn(p)
  \/ ListIndexRead(p)
  \/ \E k \in 1..MaxRequests : ListFetch(p, k)
  \/ ListReturn(p)
  \/ Deliver(p)
Fairness == \A p \in Slots : WF_vars(Proceed(p))
LiveSpec == Init /\ [][Next]_vars /\ Fairness

\* ---------- properties ----------
IndexNames == { "assignments", "submissions" }
KeyOf(name, i) ==
  IF name = "assignments" THEN AssignmentKey(i) ELSE SubmissionKey(i)
NoDuplicates(seq) ==
  \A j, k \in 1..Len(seq) : seq[j] = seq[k] => j = k
IdsOf(recs) == { recs[k].id : k \in 1..Len(recs) }
Answered(p, branch) == pc[p] = "responded" /\ Dispatch(req[p]) = branch
NoWrites(p) == ops[p].put = 0 /\ ops[p].iput = 0

\* C1: every id in index:assignments has a record at assignment:{id} and
\* every id in index:submissions has a record at submission:{id}, in every
\* reachable state (any interleaving, requests stopping at any storage step).
C1_IndexedIdsHaveRecords ==
  \A name \in IndexNames :
    \A k \in 1..Len(getIndex(kv, name)) :
      kvGet(kv, KeyOf(name, getIndex(kv, name)[k])) # <<>>

\* a create stopped after its record write, while its index lists other ids
C1_Witness ==
  \E p \in Slots :
    /\ Answered(p, "assignmentsPost")
    /\ resp[p] = Uncaught
    /\ ops[p].put = 1
    /\ Len(getIndex(kv, "assignments")) >= 1

\* C2 as claimed: a List-Assignments that started after the 201 responses of
\* some creates returns an item for each of their ids, in every execution.
C2_ListedAfterCreate ==
  \A p \in Slots :
    Answered(p, "assignmentsGet") /\ resp[p].status = 200 =>
      \A k \in 1..seen[p] :
        created["assignments"][k].id \in IdsOf(resp[p].items)

\* C2 as amended: the same, in executions where no create has written
\* index:assignments from a value read before another request's write to it.
C2_ListedAfterCreateUnlessStale ==
  "stale:assignments" \notin flags => C2_ListedAfterCreate

\* a listing that ran alongside another request and had creates to show
C2_Witness ==
  \E p \in Slots :
    /\ Answered(p, "assignmentsGet")
    /\ resp[p].status = 200
    /\ seen[p] >= 1
    /\ "overlap" \in flags
    /\ "stale:assignments" \notin flags

\* C3: when create requests of one type never overlap, every id of a 201
\* response is in that type's index (the lost update needs two creators).
C3_NoLossWithoutOverlap ==
  \A name \in IndexNames :
    ("overlap:" \o name) \notin flags =>
      \A k \in 1..Len(created[name]) :
        Includes(getIndex(kv, name), created[name][k].id)

\* the lost update: two creates answered 201, both records stored, one id
\* missing from the index
C3_Witness ==
  /\ Len(created["assignments"]) = 2
  /\ Len(getIndex(kv, "assignments")) = 1
  /\ \A k \in 1..2 :
       kvGet(kv, AssignmentKey(created["assignments"][k].id))
         = << created["assignments"][k] >>
  /\ \E k \in 1..2 :
       ~Includes(getIndex(kv, "assignments"), created["assignments"][k].id)

\* C4: no id occurs twice in index:assignments or index:submissions and no
\* listing returns two items with the same id.
C4_NoDuplicateIds ==
  /\ \A name \in IndexNames : NoDuplicates(getIndex(kv, name))
  /\ \A p \in Slots :
       pc[p] = "responded" /\ resp[p].status = 200 =>
         NoDuplicates([k \in 1..Len(resp[p].items) |-> resp[p].items[k].id])

\* the same id generated by two creates that were both answered 201
C4_Witness ==
  /\ Len(created["assignments"]) = 2
  /\ created["assignments"][1].id = created["assignments"][2].id
  /\ getIndex(kv, "assignments") = << created["assignments"][1].id >>

\* C5: after creates that completed one after another (no request overlapped
\* another, none was cut short), a List-Assignments returns exactly the
\* created items, newest first.
C5_NewestFirst ==
  \A p \in Slots :
    /\ Answered(p, "assignmentsGet")
    /\ resp[p].status = 200
    /\ "overlap" \notin flags
    /\ "abort" \notin flags
    => resp[p].items = Reverse(created["assignments"])

\* the assignment read of a Create-Submission completes and finds no record
LookupMiss(p) ==
  /\ pc[p] = "lookup"
  /\ ops'[p].get = ops[p].get + 1
  /\ kvGet(kv, AssignmentKey(req[p].body.assignmentId.s)) = <<>>

\* C6: a Create-Submission whose assignmentId has no record is answered 404
\* and leaves the store unchanged (no record write, no index write).
C6_UnknownAssignment ==
  [][\A p \in Slots :
       LookupMiss(p) =>
         /\ pc'[p] = "responded"
         /\ resp'[p].status = 404
         /\ kv' = kv
         /\ NoWrites(p)']_vars

\* a 404 given while other assignments exist
C6_Witness ==
  \E p \in Slots :
    /\ Answered(p, "submissionsPost")
    /\ resp[p].status = 404
    /\ NoWrites(p)
    /\ Len(getIndex(kv, "assignments")) >= 1

\* C7: every stored submission's assignmentId names a stored assignment.
C7_ForeignKeyValid ==
  \A key \in DOMAIN kv :
    key[1] = "submission" =>
      kvGet(kv, AssignmentKey(JsonParse(kv[key]).assignmentId)) # <<>>

C7_Witness == \E key \in DOMAIN kv : key[1] = "submission"

\* the required fields of a create request
Required(r) ==
  IF Dispatch(r) = "assignmentsPost"
  THEN { r.body.title, r.body.prompt }
  ELSE { r.body.assignmentId, r.body.studentName, r.body.response }
IsCreateRequest(r) == Dispatch(r) \in { "assignmentsPost", "submissionsPost" }
\* a create whose required fields are strings or absent, one of them blank,
\* and whose storage operations (if any) all completed
BlankCreate(p) ==
  /\ pc[p] = "responded"
  /\ IsCreateRequest(req[p])
  /\ \A f \in Required(req[p]) : f.t # "num"
  /\ \E f \in Required(req[p]) : Blank(f)
  /\ resp[p] # Uncaught
\* the one blank field is a non-empty, whitespace-only assignmentId
OnlyAssignmentIdBlank(r) ==
  /\ Dispatch(r) = "submissionsPost"
  /\ Truthy(r.body.assignmentId)
  /\ ~Blank(r.body.studentName)
  /\ ~Blank(r.body.response)

C9_RecordsImmutable ==
  [][\A key \in DOMAIN kv :
       key[1] \in { "assignment", "submission" } =>
         key \in DOMAIN kv' /\ kv'[key] = kv[key]]_vars

\* C10: at a 201 response the item equals the value stored at {type}:{id},
\* and the response's id is the item's id and the id given to pushIndex.
C10_ResponseIsStored ==
  [][\A p \in Slots :
       pc[p] = "created" /\ pc'[p] = "responded" =>
         /\ resp'[p].status = 201
         /\ kvGet(kv', RecordKey(req[p], resp'[p].id)) = resp'[p].item
         /\ resp'[p].id = resp'[p].item[1].id
         /\ resp'[p].id = rid[p]]_vars

\* ---------- the submission filter ----------
\* the record stored for the j-th id of index:submissions passes filter x
Selected(j, x) ==
  LET got == kvGet(kv, SubmissionKey(getIndex(kv, "submissions")[j]))
  IN  got # <<>> /\ (x # <<>> => got[1].assignmentId = x)

C11_Excluded ==
  \E p \in Slots :
    /\ Answered(p, "submissionsGet")
    /\ resp[p].status = 200
    /\ req[p].filter.t = "str"
    /\ req[p].filter.s # <<>>
    /\ Len(getIndex(kv, "submissions")) >= 1
    /\ resp[p].items = <<>>

\* ---------- the dispatcher ----------
\* this step takes a new request into slot p
Arrives(p) == pc[p] = "idle" /\ pc'[p] # "idle"
\* the step answers slot p with out, without a storage read or write
AnsweredAtOnce(p, out) ==
  /\ pc'[p] = "responded"
  /\ resp'[p] = out
  /\ ops'[p] = NoOps
  /\ kv' = kv
UnparseablePost(r) == r.method = "POST" /\ ~r.jsonOk
HealthPath(r) == r.path = PathApi \/ r.path = PathHealth
DataPath(r) == r.path = PathAssignments \/ r.path = PathSubmissions

\* C12: a POST that reaches the body parse (an /api/... path other than
\* /api/health, binding present; the health and missing-binding answers
\* come first, C14 and C15) and whose body is not parseable JSON is answered
\* 400 "Invalid JSON body" in its arrival step, before routing and handler
\* validation, with no storage read or write.
C12_BadJsonRejected ==
  [][\A p \in Slots :
       /\ Arrives(p)
       /\ UnparseablePost(req'[p])
       /\ StartsWithApi(req'[p].path)
       /\ ~HealthPath(req'[p])
       /\ req'[p].kvBound
       => AnsweredAtOnce(p, err("Invalid JSON body", 400))]_vars

\* an unparseable POST to a create route, whose parsed body would have
\* failed validation, answered "Invalid JSON body" while records are stored
C12_Witness ==
  \E p \in Slots :
    /\ pc[p] = "responded"
    /\ UnparseablePost(req[p])
    /\ DataPath(req[p])
    /\ req[p].kvBound
    /\ resp[p] = err("Invalid JSON body", 400)
    /\ DOMAIN kv # {}

\* an /api/... path that is no health path and, with this method, no route
Unrouted(r) ==
  /\ StartsWithApi(r.path)
  /\ ~HealthPath(r)
  /\ ~(DataPath(r) /\ r.method \in { "GET", "POST" })

\* C13 as claimed: every request to an /api/... path that is not a route is
\* answered 404 "Not found", for every method, body and binding.
C13_UnroutedIs404 ==
  [][\A p \in Slots :
       Arrives(p) /\ Unrouted(req'[p]) =>
         AnsweredAtOnce(p, err("Not found", 404))]_vars

\* C13 as amended: such a request is answered 204 when its method is
\* OPTIONS, else 500 when the binding is absent, else 400 "Invalid JSON
\* body" when it is a POST with an unparseable body, and 404 "Not found" in
\* every remaining case; never with a storage read or write.
C13_UnroutedAnswer ==
  [][\A p \in Slots :
       Arrives(p) /\ Unrouted(req'[p]) =>
         AnsweredAtOnce(p,
           IF req'[p].method = "OPTIONS"
           THEN Response(204, TRUE, "", <<>>, <<>>, <<>>)
           ELSE IF ~req'[p].kvBound
           THEN err("KV namespace EWL_DATA not bound", 500)
           ELSE IF UnparseablePost(req'[p])
           THEN err("Invalid JSON body", 400)
           ELSE err("Not found", 404))]_vars

\* a PUT to the assignments path answered 404 while records are stored
C13_Witness ==
  \E p \in Slots :
    /\ pc[p] = "responded"
    /\ req[p].method = "PUT"
    /\ req[p].path = PathAssignments
    /\ req[p].kvBound
    /\ resp[p] = err("Not found", 404)
    /\ DOMAIN kv # {}

\* C14: with the key-value binding absent, GET and POST on /api/assignments
\* and /api/submissions are answered 500 in the arrival step, whatever the
\* body (parseable or not, valid or not), with no storage read or write.
C14_UnboundIs500 ==
  [][\A p \in Slots :
       /\ Arrives(p)
       /\ DataPath(req'[p])
       /\ req'[p].method \in { "GET", "POST" }
       /\ ~req'[p].kvBound
       => AnsweredAtOnce(p, err("KV namespace EWL_DATA not bound", 500))]_vars

\* an unparseable POST to a create route answered 500 for the binding
C14_Witness ==
  \E p \in Slots :
    /\ pc[p] = "responded"
    /\ UnparseablePost(req[p])
    /\ DataPath(req[p])
    /\ ~req[p].kvBound
    /\ resp[p].status = 500
    /\ resp[p] # Uncaught

\* C15: a health check (any method but the preflight's OPTIONS) on /api or
\* /api/health is answered 200 ok:true in its arrival step, in every store
\* state, binding present or absent, with no storage read or write.
C15_HealthIs200 ==
  [][\A p \in Slots :
       /\ Arrives(p)
       /\ HealthPath(req'[p])
       /\ req'[p].method # "OPTIONS"
       => AnsweredAtOnce(p, Response(200, TRUE, "", <<>>, <<>>, <<>>))]_vars

\* a health check answered 200 without the binding while records are stored
C15_Witness ==
  \E p \in Slots :
    /\ pc[p] = "responded"
    /\ HealthPath(req[p])
    /\ req[p].method = "GET"
    /\ ~req[p].kvBound
    /\ resp[p].status = 200
    /\ resp[p].ok
    /\ DOMAIN kv # {}

\* C18: an OPTIONS request, on any path (routed, unrouted, outside /api/)
\* and with the binding present or absent, is answered 204 with an empty
\* body in its arrival step: no storage read or write, and the answer is
\* not the one of static asset serving.
C18_PreflightIs204 ==
  [][\A p \in Slots :
       Arrives(p) /\ req'[p].method = "OPTIONS" =>
         /\ AnsweredAtOnce(p, Response(204, TRUE, "", <<>>, <<>>, <<>>))
         /\ resp'[p].error # "asset"]_vars

\* an OPTIONS request outside /api/, without the binding, answered 204
C18_Witness ==
  \E p \in Slots :
    /\ pc[p] = "responded"
    /\ req[p].method = "OPTIONS"
    /\ ~StartsWithApi(req[p].path)
    /\ ~HealthPath(req[p])
    /\ ~req[p].kvBound
    /\ resp[p].status = 204
    /\ DOMAIN kv # {}

\* ---------- the steps of a create ----------
\* this step produces the response of slot p
Responds(p) == pc[p] # "responded" /\ pc'[p] = "responded"
RecordWrite(p) == ops'[p].put = ops[p].put + 1
IndexWrite(p) == ops'[p].iput = ops[p].iput + 1
CheckOf(r) ==
  IF r.path = PathAssignments
  THEN AssignmentCheck(r.body) ELSE SubmissionCheck(r.body)

\* C16: a create goes Received, Validated, Persisted, Indexed, Responded in
\* that order: the record write happens once, after validation passed (and,
\* for a submission, after the assignment lookup) and before any index
\* access; the index write finds the record stored; the 201 comes after both
\* writes; and a response of the handler that is an error (400, 404) comes
\* with no write done.  The runtime's 500 for a rejected storage call is
\* not a response of the handler.
C16_StepsInOrder ==
  [][\A p \in Slots :
       /\ RecordWrite(p) =>
            /\ CheckOf(req[p]) = "ok"
            /\ ops[p] = [NoOps EXCEPT
                           !.get = IF req[p].path = PathSubmissions
                                   THEN 1 ELSE 0]
       /\ IndexWrite(p) =>
            /\ ops[p].put = 1 /\ ops[p].iget = 1 /\ ops[p].iput = 0
            /\ kvGet(kv, RecordKey(req[p], rid[p])) # <<>>
       /\ Responds(p) /\ resp'[p].status = 201 =>
            /\ ops[p].put = 1 /\ ops[p].iput = 1
            /\ kvGet(kv, RecordKey(req[p], rid[p])) # <<>>
       /\ Responds(p) /\ IsCreateRequest(req'[p]) /\ ~resp'[p].ok
            /\ resp'[p] # Uncaught =>
            /\ ops'[p].put = 0 /\ ops'[p].iput = 0
            /\ kv' = kv]_vars

\* a Create-Submission that went through all five steps
C16_Witness ==
  \E p \in Slots :
    /\ Answered(p, "submissionsPost")
    /\ resp[p].status = 201
    /\ ops[p] = [put |-> 1, get |-> 1, iget |-> 1, iput |-> 1]
    /\ kvGet(kv, SubmissionKey(resp[p].id)) # <<>>

\* ---------- validation before lookup ----------
\* C17: in Create-Submission a blank (absent, empty, whitespace-only)
\* studentName or response is answered 400 with no lookup made, whether or
\* not the assignmentId names a record; a 404 is given only when the
\* assignmentId is non-empty, studentName and response are non-blank, one
\* lookup was made and found nothing; a 400 only when a required field is
\* missing or blank and no storage call was made.
C17_ChecksBeforeLookup ==
  \A p \in Slots :
    Answered(p, "submissionsPost") =>
      LET body == req[p].body
      IN  /\ (Blank(body.studentName) \/ Blank(body.response))
               /\ body.studentName.t # "num" =>
                 resp[p].status = 400 /\ ops[p] = NoOps
          /\ resp[p].status = 404 =>
                 /\ Truthy(body.assignmentId)
                 /\ ~Blank(body.studentName)
                 /\ ~Blank(body.response)
                 /\ ops[p] = [NoOps EXCEPT !.get = 1]
                 /\ kvGet(kv, AssignmentKey(body.assignmentId.s)) = <<>>
          /\ resp[p].status = 400 =>
                 /\ \/ ~Truthy(body.assignmentId)
                    \/ Blank(body.studentName)
                    \/ Blank(body.response)
                 /\ ops[p] = NoOps

\* a submission with a blank studentName for an assignment that does not
\* exist, answered 400 and not 404
C17_Witness ==
  \E p \in Slots :
    /\ Answered(p, "submissionsPost")
    /\ Truthy(req[p].body.assignmentId)
    /\ kvGet(kv, AssignmentKey(req[p].body.assignmentId.s)) = <<>>
    /\ Blank(req[p].body.studentName)
    /\ ~Blank(req[p].body.response)
    /\ resp[p] = err("studentName is required", 400)

\* ---------- listings ----------
\* a GET on a data path that reaches its handler
ListRequest(r) == DataPath(r) /\ r.method = "GET" /\ r.kvBound
\* this step belongs to the request in slot p
StepOf(p) == pc'[p] # "idle" /\ (pc'[p] # pc[p] \/ ops'[p] # ops[p])

\* C19: no step of a List-Assignments or List-Submissions request, from its
\* arrival to its response, changes the store (any record key, either
\* index), and the request counts no write; also while creates are in
\* flight in other slots.
C19_ListsReadOnly ==
  [][\A p \in Slots :
       ListRequest(req'[p]) /\ StepOf(p) =>
         /\ kv' = kv
         /\ ops'[p].put = 0
         /\ ops'[p].iput = 0]_vars

\* a listing that fetched a record and was answered while a create in the
\* other slot was between its record write and its index write
C19_Witness ==
  \E p, q \in Slots :
    /\ Answered(p, "assignmentsGet")
    /\ resp[p].status = 200
    /\ ops[p].iget = 1
    /\ ops[p].get >= 1
    /\ pc[q] \in { "idxget", "idxput" }

\* ---------- termination and the number of storage operations ----------
\* the storage operations a create that ends in 201 has made
CreateOps(r) ==
  [put |-> 1, iget |-> 1, iput |-> 1,
   get |-> IF r.path = PathSubmissions THEN 1 ELSE 0]

\* each request gets one response: it is produced once, kept until it is
\* delivered, and a request leaves its slot only through it
OneResponse ==
  \A p \in Slots :
    /\ Responds(p) => resp[p] = NoResp /\ resp'[p] # NoResp
    /\ pc[p] = "responded" /\ pc'[p] = "responded" =>
         resp'[p] = resp[p] /\ req'[p] = req[p]
    /\ pc[p] # "idle" /\ pc'[p] = "idle" => pc[p] = "responded"
    /\ Responds(p) /\ resp'[p].status = 201 => ops[p] = CreateOps(req[p])

\* no storage operation is made twice by one request
NoRetry ==
  \A p \in Slots :
    pc[p] # "idle" =>
      /\ ops[p].put <= 1 /\ ops[p].iget <= 1 /\ ops[p].iput <= 1
      /\ IsCreateRequest(req[p]) => ops[p].get <= CreateOps(req[p]).get
      /\ ListRequest(req[p]) /\ pc[p] = "fetch" =>
            ops[p].get = Len(idx[p]) - Cardinality(todo[p])

\* C20: when every storage operation completes (LiveSpec), every request
\* that is being handled is eventually answered, with one response; no
\* request makes a storage operation twice; and a create answered 201 has
\* made one record write, one index read and one index write, plus one
\* assignment read if it is a submission.
C20_OneResponseNoRetry ==
  /\ \A p \in Slots : InFlight(p) ~> pc[p] = "responded"
  /\ [][OneResponse]_vars
  /\ []NoRetry

\* two creates that raced on the index, both answered 201, the second having
\* made each of its storage operations once
C20_Witness ==
  \E p \in Slots :
    /\ Answered(p, "assignmentsPost")
    /\ resp[p].status = 201
    /\ ops[p] = [put |-> 1, get |-> 0, iget |-> 1, iput |-> 1]
    /\ "stale:assignments" \in flags
====
